---- MODULE Spec2Model ----
(***************************************************************************)
(* Model of toqito's positive_semidefinite_rank / _check_psd_rank          *)
(* (matrix_props/positive_semidefinite_rank.py) and bell_inequality_max    *)
(* (state_opt/bell_inequality_max.py).                                     *)
(*                                                                         *)
(* Matrices are kept as integer matrices of shape at most 2 x 2, operators *)
(* on composite systems by their dimension and dimension list.  Objective  *)
(* values are fixed-point integers counted in units of 1e-7, so that the   *)
(* tolerance 1e-6 of the feasibility gate is the integer 10.  The SDP      *)
(* solver is the environment: it reports a status and a value.             *)
(***************************************************************************)
EXTENDS Integers, Sequences, FiniteSets, TLC

\* ---------------------------------------------------------------- bounds
MaxEntry == 2
MaxRank == 3
MaxM == 3
MaxLen == 3

\* ------------------------------------------------------ values and status
UnitsPerOne == 10^7

Finite(n) == [kind |-> "finite", v |-> n]
PosInf == [kind |-> "inf", v |-> 0]
NegInf == [kind |-> "-inf", v |-> 0]
NoValue == [kind |-> "None", v |-> 0]

\* value < t for a Python float-or-inf value and a finite threshold t
LessThan(val, t) == \/ val.kind = "-inf"
                    \/ (val.kind = "finite" /\ val.v < t)

OPTIMAL == "optimal"

NoProb == [status |-> "unsolved", value |-> NoValue]

Abs(n) == IF n < 0 THEN -n ELSE n

RECURSIVE SumOver(_, _)
SumOver(S, f) == IF S = {} THEN 0
                 ELSE LET e == CHOOSE x \in S : TRUE
                      IN f[e] + SumOver(S \ {e}, f)

\* ------------------------------------------------------------- matrices
Shapes == {<<1, 1>>, <<1, 2>>, <<2, 1>>, <<2, 2>>}
Indices(s) == (0 .. s[1] - 1) \X (0 .. s[2] - 1)
Matrices == UNION {[shape : {s}, a : [Indices(s) -> -1 .. MaxEntry]] : s \in Shapes}
NoMat == [shape |-> <<0, 0>>, a |-> <<>>]

\* variant: np.any in place of np.all
AllNonneg_any(mat) == \E ij \in DOMAIN mat.a : mat.a[ij] >= 0

\* np.all(mat >= 0)
AllNonneg(mat) == \A ij \in DOMAIN mat.a : mat.a[ij] >= 0

\* toqito.matrix_props.is_square
is_square(mat) == mat.shape[1] = mat.shape[2]

\* the two guards at the head of positive_semidefinite_rank, in order
psd_validate(mat) ==
    IF ~AllNonneg(mat) THEN "Matrix must be nonnegative."
    ELSE IF ~is_square(mat) THEN "Matrix must be square."
    ELSE "ok"

ValidMatrices == {mt \in Matrices : psd_validate(mt) = "ok"}

\* ------------------------------------------- the SDP of _check_psd_rank
\* x_var = cp.Variable((m, n)), sampled on the integer grid 0..MaxEntry
XGrid(mat) == [Indices(mat.shape) -> 0 .. MaxEntry]

\* [[a, b], [b, c]] >> 0
PsdBlock(a, b, c) == a >= 0 /\ c >= 0 /\ a * c - b * b >= 0

\* cp.bmat([[x_var[i,j], mat[i,j]], [mat[i,j], x_var[j,i]]]) >> 0 for all i, j
BlockConstraints(X, mat) ==
    \A ij \in DOMAIN mat.a :
        PsdBlock(X[ij[1], ij[2]], mat.a[ij], X[ij[2], ij[1]])

\* variant: the nuclear-norm bound with the inequality reversed
NucNormConstraint_geq(X, n, k) ==
    IF n = 1 THEN Abs(X[0, 0]) >= k
    ELSE X[0, 0] * X[0, 0] + X[0, 1] * X[0, 1] + X[1, 0] * X[1, 0] + X[1, 1] * X[1, 1]
           + 2 * Abs(X[0, 0] * X[1, 1] - X[0, 1] * X[1, 0]) >= k * k

\* cp.norm(x_var, "nuc") <= k.  For a 1x1 matrix the nuclear norm is |x|;
\* for a 2x2 matrix (s1 + s2)^2 = ||X||_F^2 + 2|det X|.
NucNormConstraint(X, n, k) ==
    IF n = 1 THEN Abs(X[0, 0]) <= k
    ELSE k >= 0 /\
         X[0, 0] * X[0, 0] + X[0, 1] * X[0, 1] + X[1, 0] * X[1, 0] + X[1, 1] * X[1, 1]
           + 2 * Abs(X[0, 0] * X[1, 1] - X[0, 1] * X[1, 0]) <= k * k

\* the constraint list of the check at rank k
Constraints(X, mat, k) ==
    BlockConstraints(X, mat) /\ NucNormConstraint(X, mat.shape[1], k)

\* obj = cp.sum(cp.square(x_var - mat))
Objective(X, mat) ==
    SumOver(DOMAIN mat.a, [ij \in DOMAIN mat.a |-> (X[ij] - mat.a[ij]) * (X[ij] - mat.a[ij])])

FeasibleSet(mat, k) == {X \in XGrid(mat) : Constraints(X, mat, k)}

\* the exact optimum of the minimisation, -1 when the feasible set is empty
ExactOptimum(mat, k) ==
    LET vals == {Objective(X, mat) : X \in FeasibleSet(mat, k)}
    IN IF vals = {} THEN -1 ELSE CHOOSE v \in vals : \A w \in vals : v <= w

\* 1e-6 in units of 1e-7
FeasTol == UnitsPerOne \div 10^6

\* numerical deviation of a reported optimal value, in units of 1e-7
SolverErr == {0, FeasTol - 1, FeasTol}

\* statuses other than OPTIMAL, each with the value cvxpy attaches to it for
\* a minimisation; the solver may report them on any problem
NonOptimalReports ==
    {[status |-> "infeasible", value |-> PosInf],
     [status |-> "unbounded", value |-> NegInf],
     [status |-> "solver_error", value |-> NoValue]}
    \cup {[status |-> "optimal_inaccurate", value |-> Finite(e)] : e \in SolverErr}

\* prob.solve(solver=cp.SCS, eps=1e-8): what the solver may report for the
\* problem of rank k.  OPTIMAL is reported only for a feasible problem, with
\* the optimum up to a numerical deviation.
psd_solve(mat, k) ==
    LET opt == ExactOptimum(mat, k)
    IN (IF opt >= 0
        THEN {[status |-> OPTIMAL, value |-> Finite(opt * UnitsPerOne + e)] : e \in SolverErr}
        ELSE {})
       \cup NonOptimalReports

\* variant: the gate with <= in place of <
check_result_leq(prob) ==
    prob.status = OPTIMAL /\ (LessThan(prob.value, FeasTol) \/ prob.value = Finite(FeasTol))

\* return prob.status == cp.OPTIMAL and prob.value < 1e-6
check_result(prob) == prob.status = OPTIMAL /\ LessThan(prob.value, FeasTol)

\* variant: range(1, max_rank) in place of range(1, max_rank + 1)
psd_loop_more_short(kk, maxr) == kk < maxr

\* line 51: whether `for k in range(1, max_rank + 1)` has another rank to try
psd_loop_more(kk, maxr) == kk <= maxr

\* variant: the search does not stop at the first success
psd_after_check_nostop(ok, kk) ==
    [pc |-> "psd_loop", k |-> kk + 1, result |-> IF ok THEN Finite(kk) ELSE NoValue]

\* lines 52-53: where the search goes after the check at rank kk
psd_after_check(ok, kk) ==
    IF ok THEN [pc |-> "returned", k |-> kk, result |-> Finite(kk)]
    ELSE [pc |-> "psd_loop", k |-> kk + 1, result |-> NoValue]

\* ------------------------------------------------- bell_inequality_max
\* range(a, b) as a sequence
Range(a, b) == [i \in 1 .. (b - a) |-> a + i - 1]

\* [d] * n
Rep(d, n) == [i \in 1 .. n |-> d]

RECURSIVE Prod(_)
Prod(s) == IF s = <<>> THEN 1 ELSE Head(s) * Prod(Tail(s))

RECURSIVE PrependAll(_, _)
PrependAll(x, ss) == IF ss = <<>> THEN <<>>
                     ELSE <<(<<x>> \o Head(ss))>> \o PrependAll(x, Tail(ss))

\* itertools.combinations(pool, r): the r-length subsequences of pool, in
\* lexicographic order of positions
RECURSIVE combinations(_, _)
combinations(pool, r) ==
    IF r = 0 THEN << <<>> >>
    ELSE IF Len(pool) < r THEN <<>>
    ELSE PrependAll(Head(pool), combinations(Tail(pool), r - 1))
         \o combinations(Tail(pool), r)

\* variant: `and` in place of `or` in the guard
bell_validate_and(la, lb) ==
    IF la # 2 /\ lb # 2
    THEN "This script is only capable of handling Bell inequalities with two outcomes."
    ELSE "ok"

\* line 112: the guard on the two outcome-value vectors
bell_validate(la, lb) ==
    IF la # 2 \/ lb # 2
    THEN "This script is only capable of handling Bell inequalities with two outcomes."
    ELSE "ok"

\* line 115
tot_dim(mm) == 2 ^ (2 * mm + 2)

\* line 32: the dimension of MN_matrix(m, a, x)
MN_dim(mm) == 2 ^ (mm + 1)

\* lines 119-122: the index tuples (a, b, x, y) of the objective's terms
ObjectiveTerms(mm) == (0 .. 1) \X (0 .. 1) \X (1 .. mm) \X (1 .. mm)

\* line 139: the dimension of the variable W
W_dim(mm) == 2 ^ (2 * mm)

\* line 136: aux_mat is 4 x 4
aux_dim == 4

SwapCall(opdim, sys, dim) == [fn |-> "swap", opdim |-> opdim, sys |-> sys, dim |-> dim]
PtCall(opdim, sys, dim) == [fn |-> "partial_transpose", opdim |-> opdim, sys |-> sys, dim |-> dim]

\* line 141: M = swap(W, [2, m + 1], [2] * (2 * m))
swap_M(mm) == SwapCall(W_dim(mm), <<2, mm + 1>>, Rep(2, 2 * mm))

\* line 142: X = swap(cp.kron(M, aux_mat), [m + 1, 2 * m + 1], [2] * (2 * m + 2))
swap_X(mm) == SwapCall(W_dim(mm) * aux_dim, <<mm + 1, 2 * mm + 1>>, Rep(2, 2 * mm + 2))

\* line 143: Z = swap(X, [m + 2, 2 * m + 1], [2] * (2 * m + 2)); swap keeps the dimension
swap_Z(mm) == SwapCall(swap_X(mm).opdim, <<mm + 2, 2 * mm + 1>>, Rep(2, 2 * mm + 2))

\* variant: range(1, m) in place of range(1, m + 1)
ppt_sizes_short(mm) == Range(1, mm)

\* line 151: range(1, m + 1)
ppt_sizes(mm) == Range(1, mm + 1)

\* variant: range(1, 2 * m) in place of range(1, 2 * m - 1)
ppt_pool_wide(mm) == Range(1, 2 * mm)

\* line 153: range(1, 2 * m - 1)
ppt_pool(mm) == Range(1, 2 * mm - 1)

\* line 155: [x - 1 for x in ppt_partition]
ppt_partition_updated(part) == [i \in 1 .. Len(part) |-> part[i] - 1]

\* variant: the leading 4 left out of the dimension list
ppt_dims_nofour(mm) == Rep(2, 2 * (mm - 1))

\* line 157: [4] + [2] * (2 * (m - 1))
ppt_dims(mm) == <<4>> \o Rep(2, 2 * (mm - 1))

\* line 157: partial_transpose(W, ppt_partition_updated, [4] + [2] * (2 * (m - 1)))
ppt_call(mm, part) == PtCall(W_dim(mm), ppt_partition_updated(part), ppt_dims(mm))

\* line 148: [cp.trace(W) == 1, W >> 0]
base_constraints == << [kind |-> "trace_one", sys |-> <<>>], [kind |-> "psd", sys |-> <<>>] >>

\* objective values the solver may attach to a solved problem (abstract)
BellValues == {0, 1}

\* prob.solve(solver="MOSEK"): what the solver may report, with the value
\* cvxpy attaches to each status for a maximisation
bell_solve ==
    {[status |-> s, value |-> Finite(v)] : s \in {OPTIMAL, "optimal_inaccurate"}, v \in BellValues}
    \cup {[status |-> "infeasible", value |-> NegInf],
          [status |-> "unbounded", value |-> PosInf],
          [status |-> "solver_error", value |-> NoValue]}

\* lines 166-168: bmax = prob.value; return bmax
bell_return(p) == p.value

\* ------------------------------------------------------------------ state
VARIABLES call, pc, mat, max_rank, k, checks, prob, result, error, feas,
          m, oa, ob, obj_mat, ops, constraints, sz, pending

psdvars == <<mat, max_rank, k, checks, feas>>
bellvars == <<m, oa, ob, obj_mat, ops, constraints, sz, pending>>
vars == <<call, pc, prob, result, error, psdvars, bellvars>>

NoFeas == [r \in 1 .. MaxRank |-> "none"]
NoObj == [dim |-> 0, terms |-> 0, term_dim |-> 0]

PsdIdle == mat = NoMat /\ max_rank = 0 /\ k = 0 /\ checks = <<>> /\ feas = NoFeas
BellIdle == /\ m = 0 /\ oa = 0 /\ ob = 0 /\ obj_mat = NoObj /\ ops = <<>>
            /\ constraints = <<>> /\ sz = 0 /\ pending = <<>>

InitPsdRank ==
    /\ call = "positive_semidefinite_rank"
    /\ pc = "psd_start"
    /\ mat \in Matrices
    /\ max_rank \in 0 .. MaxRank
    /\ k = 0 /\ checks = <<>> /\ prob = NoProb
    /\ result = NoValue /\ error = "" /\ feas = NoFeas
    /\ BellIdle

InitCheck ==
    /\ call = "_check_psd_rank"
    /\ pc = "chk_ready"
    /\ mat \in ValidMatrices
    /\ max_rank = 0
    /\ k = 0 /\ checks = <<>> /\ prob = NoProb
    /\ result = NoValue /\ error = "" /\ feas = NoFeas
    /\ BellIdle

InitBell ==
    /\ call = "bell_inequality_max"
    /\ pc = "bell_start"
    /\ m \in 1 .. MaxM
    /\ oa \in 1 .. MaxLen
    /\ ob \in 1 .. MaxLen
    /\ obj_mat = NoObj /\ ops = <<>> /\ constraints = <<>> /\ sz = 0 /\ pending = <<>>
    /\ prob = NoProb /\ result = NoValue /\ error = ""
    /\ PsdIdle

Init == InitPsdRank \/ InitCheck \/ InitBell

\* lines 46-49: the two input guards
PsdValidate ==
    /\ pc = "psd_start"
    /\ LET v == psd_validate(mat)
       IN IF v = "ok"
          THEN /\ pc' = "psd_loop" /\ k' = 1 /\ error' = error
          ELSE /\ pc' = "raised" /\ error' = v /\ k' = k
    /\ UNCHANGED <<call, mat, max_rank, checks, prob, result, feas, bellvars>>

\* line 51 / 54: the head of `for k in range(1, max_rank + 1)`
PsdLoopHead ==
    /\ pc = "psd_loop"
    /\ IF psd_loop_more(k, max_rank)
       THEN /\ pc' = "psd_check" /\ result' = result
       ELSE /\ pc' = "returned" /\ result' = NoValue
    /\ UNCHANGED <<call, prob, error, psdvars, bellvars>>

\* lines 52-53: one call of _check_psd_rank(mat, k) and the test of its result
PsdCheck ==
    /\ pc = "psd_check"
    /\ \E rep \in psd_solve(mat, k) :
         LET ok == check_result(rep)
             nxt == psd_after_check(ok, k)
         IN /\ prob' = rep
            /\ checks' = Append(checks, [k |-> k, optimal |-> (rep.status = OPTIMAL), ok |-> ok])
            /\ pc' = nxt.pc /\ k' = nxt.k /\ result' = nxt.result
    /\ UNCHANGED <<call, mat, max_rank, error, feas, bellvars>>

\* a direct call of _check_psd_rank(mat, r) for a rank not tried before; the
\* problem object is local to the call, the caller keeps the boolean
DirectCheck ==
    /\ pc = "chk_ready"
    /\ \E r \in 1 .. MaxRank :
         /\ feas[r] = "none"
         /\ \E rep \in psd_solve(mat, r) :
              /\ k' = r
              /\ feas' = [feas EXCEPT ![r] = IF check_result(rep) THEN "pass" ELSE "fail"]
    /\ UNCHANGED <<call, pc, mat, max_rank, checks, prob, result, error, bellvars>>

\* lines 101-113: read the sizes, reshape, and guard the outcome vectors
BellValidate ==
    /\ pc = "bell_start"
    /\ LET v == bell_validate(oa, ob)
       IN IF v = "ok"
          THEN /\ pc' = "bell_objective" /\ error' = error
          ELSE /\ pc' = "raised" /\ error' = v
    /\ UNCHANGED <<call, prob, result, psdvars, bellvars>>

\* lines 115-136: assemble and symmetrise the objective operator
BellObjective ==
    /\ pc = "bell_objective"
    /\ obj_mat' = [dim |-> tot_dim(m),
                   terms |-> Cardinality(ObjectiveTerms(m)),
                   term_dim |-> MN_dim(m) * MN_dim(m)]
    /\ pc' = "bell_variable"
    /\ UNCHANGED <<call, prob, result, error, psdvars, m, oa, ob, ops, constraints, sz, pending>>

\* lines 139-145: the variable W, the three swaps and the objective
BellVariable ==
    /\ pc = "bell_variable"
    /\ ops' = <<swap_M(m), swap_X(m), swap_Z(m)>>
    /\ pc' = "bell_constraints"
    /\ UNCHANGED <<call, prob, result, error, psdvars, m, oa, ob, obj_mat, constraints, sz, pending>>

\* line 148: the trace and positivity constraints
BellConstraints ==
    /\ pc = "bell_constraints"
    /\ constraints' = base_constraints
    /\ sz' = 1
    /\ pc' = "bell_ppt_size"
    /\ UNCHANGED <<call, prob, result, error, psdvars, m, oa, ob, obj_mat, ops, pending>>

\* line 151 / 153: the head of `for sz in range(1, m + 1)`; sz is the
\* position in range(1, m + 1)
BellPptSize ==
    /\ pc = "bell_ppt_size"
    /\ IF sz <= Len(ppt_sizes(m))
       THEN /\ pending' = combinations(ppt_pool(m), ppt_sizes(m)[sz])
            /\ pc' = "bell_ppt_partition"
       ELSE /\ pending' = pending
            /\ pc' = "bell_solve"
    /\ UNCHANGED <<call, prob, result, error, psdvars, m, oa, ob, obj_mat, ops, constraints, sz>>

\* lines 153-158: one iteration of the loop over the combinations
BellPptPartition ==
    /\ pc = "bell_ppt_partition"
    /\ IF pending # <<>>
       THEN LET c == ppt_call(m, Head(pending))
            IN /\ ops' = Append(ops, c)
               /\ constraints' = Append(constraints, [kind |-> "ppt", sys |-> c.sys])
               /\ pending' = Tail(pending)
               /\ sz' = sz /\ pc' = pc
       ELSE /\ sz' = sz + 1
            /\ pc' = "bell_ppt_size"
            /\ UNCHANGED <<ops, constraints, pending>>
    /\ UNCHANGED <<call, prob, result, error, psdvars, m, oa, ob, obj_mat>>

\* lines 161-162: build the problem and call the solver
BellSolve ==
    /\ pc = "bell_solve"
    /\ \E rep \in bell_solve : prob' = rep
    /\ pc' = "bell_return"
    /\ UNCHANGED <<call, result, error, psdvars, bellvars>>

\* lines 165-168: read the value and return it
BellReturn ==
    /\ pc = "bell_return"
    /\ result' = bell_return(prob)
    /\ pc' = "returned"
    /\ UNCHANGED <<call, prob, error, psdvars, bellvars>>

Next == \/ PsdValidate \/ PsdLoopHead \/ PsdCheck \/ DirectCheck
        \/ BellValidate \/ BellObjective \/ BellVariable \/ BellConstraints
        \/ BellPptSize \/ BellPptPartition \/ BellSolve \/ BellReturn

Spec == Init /\ [][Next]_vars

\* ------------------------------------------------------------- properties
InSearch == call = "positive_semidefinite_rank"
InDirect == call = "_check_psd_rank"
InBell == call = "bell_inequality_max"

SeqToSet(q) == {q[i] : i \in 1 .. Len(q)}

\* the subsystem lists of the PPT constraints attached so far
PptLists == SelectSeq(constraints, LAMBDA c : c.kind = "ppt")

\* the PPT loop of bell_inequality_max has run to its end
PptLoopDone == InBell /\ pc \in {"bell_solve", "bell_return", "returned"}

\* the value of the gate "status is OPTIMAL and value < 1e-6" on a report,
\* written on the fixed-point representation
GateHolds(p) == /\ p.status = "optimal"
                /\ p.value.kind = "finite"
                /\ p.value.v < UnitsPerOne \div 10^6

RECURSIVE Binom(_, _)
Binom(n, r) == IF r = 0 THEN 1
               ELSE IF n = 0 THEN 0
               ELSE Binom(n - 1, r - 1) + Binom(n - 1, r)

RECURSIVE SumBinom(_, _)
SumBinom(n, r) == IF r = 0 THEN 0 ELSE Binom(n, r) + SumBinom(n, r - 1)

\* C1: the search runs the check for k = 1, 2, ... in ascending order, each
\* rank once; only the last check run can have succeeded (no check follows a
\* success), and a returned k is the rank of that last, successful check, so
\* it is the least k in [1, max_rank] whose check succeeds.
C1_FirstSuccessReturned ==
    InSearch =>
        /\ \A i \in 1 .. Len(checks) : checks[i].k = i /\ i <= max_rank
        /\ \A i \in 1 .. Len(checks) - 1 : ~checks[i].ok
        /\ (pc = "returned" /\ result.kind = "finite") =>
              /\ result.v \in 1 .. max_rank
              /\ Len(checks) = result.v
              /\ checks[result.v].ok
        /\ (checks # <<>> /\ checks[Len(checks)].ok) =>
              /\ pc = "returned"
              /\ result = Finite(Len(checks))

C1_Witness ==
    /\ InSearch /\ pc = "returned" /\ result = Finite(2) /\ max_rank = 3
    /\ Len(checks) = 2 /\ ~checks[1].ok /\ checks[2].ok

\* C2: when the solver's status is not OPTIMAL, bell_inequality_max never
\* hands a numeric value back to its caller.
C2_NoValueUnlessOptimal ==
    (InBell /\ pc = "returned" /\ prob.status # "optimal") =>
        result.kind \notin {"finite", "inf", "-inf"}

\* C3 (as stated): a run whose checks all ended in a non-optimal solver
\* status does not end like a run that found no rank, i.e. it does not
\* return None without raising.
C3_FailureDistinctFromNotFound ==
    (InSearch /\ pc = "returned" /\ checks # <<>>
       /\ \A i \in 1 .. Len(checks) : ~checks[i].optimal) =>
        result # NoValue

\* C3 (amended): the search returns None, without raising, exactly when the
\* check was run at every k in [1, max_rank] and passed at none of them,
\* whether it failed through the status or through the objective value.
C3_NoneIffNoRankPasses ==
    (InSearch /\ pc = "returned") =>
        /\ error = ""
        /\ (result = NoValue) <=>
              /\ \A r \in 1 .. max_rank :
                    \E i \in 1 .. Len(checks) : checks[i].k = r /\ ~checks[i].ok
              /\ \A i \in 1 .. Len(checks) : ~checks[i].ok

C3_Witness ==
    /\ InSearch /\ pc = "returned" /\ result = NoValue /\ max_rank = 2
    /\ Len(checks) = 2 /\ checks[1].optimal /\ ~checks[2].optimal

\* C4: the check at k succeeds iff the status is OPTIMAL and the value is
\* below 1e-6; after a non-optimal status at k the search neither raises nor
\* stops early: it goes on to k + 1, or returns None when k = max_rank.
C4_GateAndContinue ==
    (InSearch /\ checks # <<>>) =>
          LET last == checks[Len(checks)]
          IN /\ last.ok <=> GateHolds(prob)
             /\ prob.status # "optimal" =>
                   /\ error = ""
                   /\ pc \in {"psd_loop", "psd_check", "returned"}
                   /\ pc = "psd_loop" => k = last.k + 1
                   /\ pc = "psd_check" => k = last.k + 1 /\ k <= max_rank
                   /\ pc = "returned" => result = NoValue /\ last.k = max_rank

C4_Witness ==
    /\ InSearch /\ pc = "psd_check" /\ k = 2 /\ max_rank >= 2
    /\ Len(checks) = 1 /\ prob.status = "unbounded"

\* C5: a matrix with a negative entry or a non-square shape makes
\* positive_semidefinite_rank raise, whatever max_rank is, and before any
\* feasibility check is built or any solver call is made.
C5_InvalidMatrixRaises ==
    (InSearch /\ ((\E ij \in DOMAIN mat.a : mat.a[ij] < 0)
                    \/ mat.shape[1] # mat.shape[2])) =>
        /\ pc \in {"psd_start", "raised"}
        /\ pc = "raised" => error # ""
        /\ checks = <<>>
        /\ prob = NoProb
        /\ result = NoValue

C5_Witness ==
    /\ InSearch /\ pc = "raised" /\ max_rank = MaxRank
    /\ mat.shape = <<2, 2>> /\ mat.a[<<0, 1>>] < 0 /\ mat.a[<<0, 0>>] > 0

\* C6: when a_val or b_val has a length other than 2 (one of them is
\* enough), bell_inequality_max raises, and it has then assembled no
\* objective operator, made no swap, built no constraint and not called the
\* solver.
C6_BadLengthRaises ==
    (InBell /\ (oa # 2 \/ ob # 2)) =>
        /\ pc \in {"bell_start", "raised"}
        /\ pc = "raised" => error # ""
        /\ obj_mat = NoObj
        /\ ops = <<>>
        /\ constraints = <<>>
        /\ prob = NoProb

C6_Witness == InBell /\ pc = "raised" /\ oa = 2 /\ ob = 3

C9_CheckOutcomeMonotone ==
    InDirect =>
        \A r1, r2 \in 1 .. MaxRank :
            (r1 < r2 /\ feas[r1] = "pass") => feas[r2] # "fail"

\* C9 (amended): the constraint set of the check at k is contained in the one
\* at every larger k, so the exact optimum of the check's problem does not
\* grow with k.
C9_ConstraintSetsNested ==
    (InDirect /\ k >= 1) =>
        \A r \in (k + 1) .. MaxRank :
            /\ \A X \in XGrid(mat) : Constraints(X, mat, k) => Constraints(X, mat, r)
            /\ ExactOptimum(mat, k) >= 0 =>
                  (ExactOptimum(mat, r) >= 0 /\ ExactOptimum(mat, r) <= ExactOptimum(mat, k))

C9_Witness ==
    /\ InDirect /\ k = 2 /\ feas[2] = "pass" /\ feas[1] = "fail" /\ feas[3] = "none"
    /\ mat.shape = <<2, 2>> /\ ExactOptimum(mat, 1) = -1

\* C10: every swap and partial_transpose call is index-consistent: the
\* product of the dimension list is the dimension of the operator passed
\* (2^(2m) for W, 2^(2m+2) for kron(M, aux_mat) and X, which is also the
\* dimension of obj_mat and of each of its terms), swap gets two positions
\* in 1 .. len(dims) and partial_transpose indices in 0 .. len(dims) - 1.
C10_CallsIndexConsistent ==
    InBell =>
        /\ \A i \in 1 .. Len(ops) :
              LET c == ops[i]
              IN /\ Prod(c.dim) = c.opdim
                 /\ c.fn = "swap" =>
                       Len(c.sys) = 2 /\ \A j \in 1 .. 2 : c.sys[j] \in 1 .. Len(c.dim)
                 /\ c.fn = "partial_transpose" =>
                       \A j \in 1 .. Len(c.sys) : c.sys[j] \in 0 .. (Len(c.dim) - 1)
                 /\ c.fn = (IF i <= 3 THEN "swap" ELSE "partial_transpose")
                 /\ c.opdim = (IF i \in {2, 3} THEN 2 ^ (2 * m + 2) ELSE 2 ^ (2 * m))
        /\ ops # <<>> =>
              /\ Len(ops) >= 3
              /\ obj_mat.dim = ops[3].opdim
              /\ obj_mat.term_dim = obj_mat.dim

C10_Witness == PptLoopDone /\ m = 2 /\ Len(ops) = 6
====
